---- MODULE Spec2Model ----
(***************************************************************************)
(* emberkeyd: a key directory with a stateless challenge-response proof    *)
(* of possession (src/src/main.rs).                                        *)
(*                                                                         *)
(* Byte strings are abstract values.  Random bytes are [len, v]: v is the  *)
(* number of the draw that produced them (0 for bytes a client made up).   *)
(* An AES-256-GCM ciphertext is [k, n, pt, flip]: the key and nonce it was *)
(* sealed under, its plaintext, and whether a bit of it was flipped after  *)
(* sealing.  It opens only under the same key and nonce, unflipped (the    *)
(* AEAD contract); clients can seal under keys of their own (k = 0) but    *)
(* not under the server's key.  Fresh random draws never collide.          *)
(***************************************************************************)
EXTENDS Integers, Sequences, FiniteSets, TLC

\* ---------------------------------------------------------------- bounds
MaxChallenges == 2
MaxTasks == 2
MaxRestarts == 1

\* ------------------------------------------------------ program constants
NonceLen == 12
ChallengeLen == 32
OK == 200
CREATED == 201
BAD_REQUEST == 400
NOT_FOUND == 404
CONFLICT == 409
INTERNAL_SERVER_ERROR == 500

\* ------------------------------------------------------------ the parties
PubKeys == {"A", "B"}
\* "A"'s private key is held by an honest client, "B"'s by the adversary.
HonestKeys == {"A"}
AttackerKeys == {"B"}
Names == {"alice", "bob"}
Tasks == 1..MaxTasks

VARIABLES my_key, db, mutex, tasks, issued, leaked, restarts, checked

vars == <<my_key, db, mutex, tasks, issued, leaked, restarts, checked>>

\* ------------------------------------------------------------ byte values
RandBytes(len, r) == [len |-> len, v |-> r]

NoBytes == [len |-> 0, v |-> 0]

NoPlain == [wf |-> FALSE, cn |-> NoBytes, pk |-> "-"]

\* bincode::serialize(&State{challenge_nonce, pubkey})
BincodeSerializeState(state) ==
    [wf |-> TRUE, cn |-> state.challenge_nonce, pk |-> state.pubkey]

\* bincode::deserialize::<State>(&plaintext)
BincodeDeserializeState(plaintext) ==
    IF plaintext.wf
    THEN [ok |-> TRUE,
          state |-> [challenge_nonce |-> plaintext.cn, pubkey |-> plaintext.pk]]
    ELSE [ok |-> FALSE, state |-> [challenge_nonce |-> NoBytes, pubkey |-> "-"]]

\* bincode::serialize(&pubkey): the key bytes written to the store
BincodeSerializePubkey(pubkey) == <<"bincode", pubkey>>

\* cipher.encrypt sealing under a nonce other than the one it is given.
AeadEncryptOtherNonce(key, nonce, plaintext) ==
    [k |-> key, n |-> [nonce EXCEPT !.v = nonce.v + 1], pt |-> plaintext,
     flip |-> FALSE]

\* cipher.encrypt(&nonce, plaintext)
AeadEncrypt(key, nonce, plaintext) ==
    [k |-> key, n |-> nonce, pt |-> plaintext, flip |-> FALSE]

\* cipher.decrypt(&nonce, ciphertext): fails closed unless the ciphertext was
\* sealed under this key and this nonce and is unmodified.
AeadDecrypt(key, nonce, ciphertext) ==
    IF ciphertext.k = key /\ ciphertext.n = nonce /\ ~ciphertext.flip
    THEN [ok |-> TRUE, pt |-> ciphertext.pt]
    ELSE [ok |-> FALSE, pt |-> NoPlain]

\* pubkey.encrypt(rng, message), serialized: only the holder of pubkey's
\* private key opens it.
PkEncrypt(pubkey, message) == [pk |-> pubkey, m |-> message]

PkDecrypt(held, ciphertext) ==
    IF ciphertext.pk \in held
    THEN [ok |-> TRUE, m |-> ciphertext.m]
    ELSE [ok |-> FALSE, m |-> NoBytes]

\* Aes256Gcm::generate_key(thread_rng()): the key of the n-th process start.
GenerateKeyStale(epoch) == 1

GenerateKey(epoch) == epoch

\* ---------------------------------------------------- Challenge, Response
\* Challenge::new_challenge; r numbers the thread_rng() draws of this call.
new_challenge(key, pubkey, r) ==
    LET challenge_nonce == RandBytes(ChallengeLen, r)
        nonce == RandBytes(NonceLen, r)
        state == [challenge_nonce |-> challenge_nonce, pubkey |-> pubkey]
    IN  [challenge |-> PkEncrypt(pubkey, challenge_nonce),
         state |-> AeadEncrypt(key, nonce, BincodeSerializeState(state)),
         nonce |-> nonce]

Some(pubkey) == [tag |-> "Some", pubkey |-> pubkey]

None == [tag |-> "None", pubkey |-> "-"]

Panic == [tag |-> "Panic", pubkey |-> "-"]

\* self.nonce.as_slice().try_into(): &[u8] -> &GenericArray<u8, U12>.  The
\* only conversion generic-array 0.14 (the array type of aes-gcm's Nonce)
\* offers is From<&[T]>, so try_into() is the blanket TryFrom with Error =
\* Infallible: it asserts the length and panics when it is not 12; .ok()?
\* never sees an Err.
TryIntoNonce(bytes) == IF bytes.len = NonceLen THEN "ok" ELSE "panic"

\* Response::verify without the comparison of line 74.
verifyNoCompare(self, key) ==
    IF TryIntoNonce(self.nonce) = "panic" THEN Panic
    ELSE IF TryIntoNonce(self.nonce) = "err" THEN None
    ELSE LET opened == AeadDecrypt(key, self.nonce, self.state) IN
         IF ~opened.ok THEN None
         ELSE LET parsed == BincodeDeserializeState(opened.pt) IN
              IF ~parsed.ok THEN None ELSE Some(parsed.state.pubkey)

\* Response::verify returning a key other than the one sealed in the state.
verifyOtherKey(self, key) ==
    IF TryIntoNonce(self.nonce) = "panic" THEN Panic
    ELSE LET opened == AeadDecrypt(key, self.nonce, self.state) IN
         IF ~opened.ok THEN None
         ELSE LET parsed == BincodeDeserializeState(opened.pt) IN
              IF ~parsed.ok THEN None
              ELSE IF self.response = parsed.state.challenge_nonce
                   THEN Some(CHOOSE k \in PubKeys : k # parsed.state.pubkey)
                   ELSE None

\* Response::verify.  The "err" arm is the .ok()? of line 71, which the
\* conversion never takes.
verify(self, key) ==
    IF TryIntoNonce(self.nonce) = "panic" THEN Panic
    ELSE IF TryIntoNonce(self.nonce) = "err" THEN None
    ELSE LET opened == AeadDecrypt(key, self.nonce, self.state) IN
         IF ~opened.ok THEN None
         ELSE LET parsed == BincodeDeserializeState(opened.pt) IN
              IF ~parsed.ok THEN None
              ELSE IF self.response = parsed.state.challenge_nonce
                   THEN Some(parsed.state.pubkey)
                   ELSE None

\* ------------------------------------------------------------ the store
NoCipher == [k |-> 0, n |-> NoBytes, pt |-> NoPlain, flip |-> FALSE]

NoReq == [response |-> NoBytes, state |-> NoCipher, nonce |-> NoBytes, name |-> "-"]

NoKeyBytes == <<"-", "-">>

IdleTask ==
    [pc |-> "idle", kind |-> "-", by |-> "-", req |-> NoReq, key |-> 0,
     verified |-> "-", keybytes |-> NoKeyBytes, res |-> "-", reply |-> 0]

NamesIn(rows) == {rows[i].name : i \in 1..Len(rows)}

\* INSERT INTO keys (name, pubkey) on a table without the UNIQUE constraint.
execute_insert_no_unique(rows, name, keybytes, store_error) ==
    IF store_error
    THEN [res |-> "OtherError", rows |-> rows]
    ELSE [res |-> "Ok", rows |-> Append(rows, [name |-> name, pubkey |-> keybytes])]

\* INSERT OR REPLACE INTO keys: a taken name gets the new key.
execute_insert_or_replace(rows, name, keybytes, store_error) ==
    IF store_error
    THEN [res |-> "OtherError", rows |-> rows]
    ELSE IF name \in NamesIn(rows)
         THEN [res |-> "Ok",
               rows |-> [i \in 1..Len(rows) |->
                            IF rows[i].name = name
                            THEN [name |-> name, pubkey |-> keybytes]
                            ELSE rows[i]]]
         ELSE [res |-> "Ok",
               rows |-> Append(rows, [name |-> name, pubkey |-> keybytes])]

\* INSERT INTO keys (name, pubkey) on a table whose pubkey column is UNIQUE
\* as well.
execute_insert_unique_pubkey(rows, name, keybytes, store_error) ==
    IF store_error
    THEN [res |-> "OtherError", rows |-> rows]
    ELSE IF name \in NamesIn(rows) \/ \E i \in 1..Len(rows) : rows[i].pubkey = keybytes
         THEN [res |-> "ConstraintViolation", rows |-> rows]
         ELSE [res |-> "Ok",
               rows |-> Append(rows, [name |-> name, pubkey |-> keybytes])]

\* INSERT INTO keys (name, pubkey) VALUES (?1, ?2) on the table of lines
\* 89-93 (name TEXT UNIQUE NOT NULL).  store_error: the statement fails for a
\* reason of the store's own (I/O, busy, full); the table is then unchanged.
execute_insert(rows, name, keybytes, store_error) ==
    IF store_error
    THEN [res |-> "OtherError", rows |-> rows]
    ELSE IF name \in NamesIn(rows)
         THEN [res |-> "ConstraintViolation", rows |-> rows]
         ELSE [res |-> "Ok",
               rows |-> Append(rows, [name |-> name, pubkey |-> keybytes])]

\* SELECT pubkey FROM keys WHERE name = ?1, query_row: the first row, or an
\* error (QueryReturnedNoRows, or an error of the store's own).
query_row(rows, name, store_error) ==
    LET hits == {i \in 1..Len(rows) : rows[i].name = name} IN
    IF store_error \/ hits = {}
    THEN [ok |-> FALSE, bytes |-> NoKeyBytes]
    ELSE [ok |-> TRUE,
          bytes |-> rows[CHOOSE i \in hits : \A j \in hits : i <= j].pubkey]

\* match res of post_response with every store error reported as a conflict.
insert_status_all_conflict(res) == IF res = "Ok" THEN CREATED ELSE CONFLICT

\* match res { Ok / Err(ConstraintViolation) / Err(other) } of post_response
insert_status(res) ==
    IF res = "Ok" THEN CREATED
    ELSE IF res = "ConstraintViolation" THEN CONFLICT
    ELSE INTERNAL_SERVER_ERROR

\* ------------------------------------------------------------ what clients send
Issued == {issued[i] : i \in 1..Len(issued)}

\* The challenge nonces a holder of the private keys `held` recovers.
Recovered(held) ==
    {PkDecrypt(held, c.challenge).m : c \in {x \in Issued : PkDecrypt(held, x.challenge).ok}}

Guess == RandBytes(ChallengeLen, 0)

FlipBit(ciphertext) == [ciphertext EXCEPT !.flip = TRUE]

Truncate(bytes) == [bytes EXCEPT !.len = bytes.len - 1]

\* Sealed by the adversary under a key of its own: a state naming pubkey with a
\* challenge nonce the adversary knows.
ForeignSeal(pubkey) ==
    AeadEncrypt(0, RandBytes(NonceLen, 0),
                BincodeSerializeState([challenge_nonce |-> Guess, pubkey |-> pubkey]))

\* Nonces the adversary can present: recovered with its own private keys,
\* given to it by a holder, or made up.
AdversaryNonces == Recovered(AttackerKeys) \cup leaked \cup {Guess}

\* The holder of an honest key answers a challenge for its key.
HolderRequests ==
    {[response |-> PkDecrypt(HonestKeys, c.challenge).m, state |-> c.state,
      nonce |-> c.nonce, name |-> n] :
        c \in {x \in Issued : PkDecrypt(HonestKeys, x.challenge).ok}, n \in Names}

\* The adversary replays the state and nonce of one challenge with any nonce
\* it can present.
ReplayRequests ==
    {[response |-> r, state |-> c.state, nonce |-> c.nonce, name |-> n] :
        r \in AdversaryNonces, c \in Issued, n \in Names}

\* The adversary builds each field from anything it has seen or can make.
ForgedRequests ==
    {[response |-> r, state |-> s, nonce |-> a, name |-> n] :
        r \in AdversaryNonces,
        s \in {c.state : c \in Issued} \cup {FlipBit(c.state) : c \in Issued}
              \cup {ForeignSeal(k) : k \in HonestKeys},
        a \in {c.nonce : c \in Issued} \cup {Truncate(c.nonce) : c \in Issued}
              \cup {RandBytes(NonceLen, 0)},
        n \in Names}

\* ------------------------------------------------------------ the server
\* main, lines 86-98: the store is opened (keys.sqlite, kept across process
\* starts), the table created if absent, a fresh server key generated.
Init ==
    /\ my_key = GenerateKey(1)
    /\ db = <<>>
    /\ mutex = 0
    /\ tasks = [t \in Tasks |-> IdleTask]
    /\ issued = <<>>
    /\ leaked = {}
    /\ restarts = 0
    /\ checked = [self |-> NoReq, key |-> 0, result |-> None]

\* post_challenge generating a new server key for every challenge.
post_challenge_rekey(pubkey) ==
    /\ Len(issued) < MaxChallenges
    /\ my_key' = GenerateKey(my_key + 1)
    /\ LET c == new_challenge(my_key', pubkey, Len(issued) + 1)
       IN  issued' = Append(issued, [challenge |-> c.challenge, state |-> c.state,
                                     nonce |-> c.nonce, boot |-> restarts])
    /\ UNCHANGED <<db, mutex, tasks, leaked, restarts, checked>>

\* POST /challenge: a reply built by new_challenge; nothing is kept by the
\* server.  issued is the network's record of the replies sent, each with the
\* process start (boot) that sent it.
post_challenge(pubkey) ==
    /\ Len(issued) < MaxChallenges
    /\ LET c == new_challenge(my_key, pubkey, Len(issued) + 1)
       IN  issued' = Append(issued, [challenge |-> c.challenge, state |-> c.state,
                                     nonce |-> c.nonce, boot |-> restarts])
    /\ UNCHANGED <<my_key, db, mutex, tasks, leaked, restarts, checked>>

\* The holder of an honest key hands the nonce it recovered to the adversary.
Reveal(i) ==
    /\ i \in 1..Len(issued)
    /\ PkDecrypt(HonestKeys, issued[i].challenge).ok
    /\ PkDecrypt(HonestKeys, issued[i].challenge).m \notin leaked
    /\ leaked' = leaked \cup {PkDecrypt(HonestKeys, issued[i].challenge).m}
    /\ UNCHANGED <<my_key, db, mutex, tasks, issued, restarts, checked>>

\* post_response taking the store lock whatever verify returned.
post_response_lock_always(t, req, by) ==
    /\ tasks[t].pc = "idle"
    /\ LET v == verify(req, my_key)
           ended == [IdleTask EXCEPT !.kind = "response", !.verified = v.tag,
                                     !.req = [NoReq EXCEPT !.name = req.name]]
       IN  tasks' = [tasks EXCEPT ![t] =
                CASE v.tag = "Panic" -> [ended EXCEPT !.pc = "panicked"]
                  [] OTHER ->
                       [ended EXCEPT !.pc = "lock", !.by = by, !.req = req,
                                     !.key = my_key,
                                     !.keybytes = BincodeSerializePubkey(v.pubkey)]]
    /\ UNCHANGED <<my_key, db, mutex, issued, leaked, restarts, checked>>

\* POST /response, lines 111-113 and 139-142: verify, then either the key
\* bytes are serialized and the handler goes for the store lock, or it
\* replies 400 and ends; a panic unwinds the handler's task without a reply.
\* A handler that ends here keeps only the name of its request.
post_response(t, req, by) ==
    /\ tasks[t].pc = "idle"
    /\ LET v == verify(req, my_key)
           ended == [IdleTask EXCEPT !.kind = "response", !.verified = v.tag,
                                     !.req = [NoReq EXCEPT !.name = req.name]]
       IN  tasks' = [tasks EXCEPT ![t] =
                CASE v.tag = "Some" ->
                       [ended EXCEPT !.pc = "lock", !.by = by, !.req = req,
                                     !.key = my_key,
                                     !.keybytes = BincodeSerializePubkey(v.pubkey)]
                  [] v.tag = "None" ->
                       [ended EXCEPT !.pc = "done", !.reply = BAD_REQUEST]
                  [] OTHER -> [ended EXCEPT !.pc = "panicked"]]
    /\ UNCHANGED <<my_key, db, mutex, issued, leaked, restarts, checked>>

\* Response::verify called on its own: checked records the call and its result.
verify_call(req) ==
    /\ checked' = [self |-> req, key |-> my_key, result |-> verify(req, my_key)]
    /\ UNCHANGED <<my_key, db, mutex, tasks, issued, leaked, restarts>>

\* GET /key/{name}, line 146: the handler goes for the store lock.
get_key(t, name) ==
    /\ tasks[t].pc = "idle"
    /\ tasks' = [tasks EXCEPT ![t] =
            [IdleTask EXCEPT !.pc = "lock", !.kind = "get_key", !.by = "reader",
                             !.req = [NoReq EXCEPT !.name = name], !.key = my_key]]
    /\ UNCHANGED <<my_key, db, mutex, issued, leaked, restarts, checked>>

\* db.lock() that does not wait for the holder of the mutex.
lock_no_wait(t) ==
    /\ tasks[t].pc = "lock"
    /\ mutex' = t
    /\ tasks' = [tasks EXCEPT ![t].pc = "locked"]
    /\ UNCHANGED <<my_key, db, issued, leaked, restarts, checked>>

\* db.lock().unwrap(), lines 114 and 147: blocks while another handler holds
\* the mutex.  No handler panics while holding it, so it is never poisoned.
lock(t) ==
    /\ tasks[t].pc = "lock"
    /\ mutex = 0
    /\ mutex' = t
    /\ tasks' = [tasks EXCEPT ![t].pc = "locked"]
    /\ UNCHANGED <<my_key, db, issued, leaked, restarts, checked>>

\* Lines 114-137: the INSERT under the lock, the guard dropped at the end of
\* the statement, the reply chosen from the result.
insert_key(t, store_error) ==
    /\ tasks[t].pc = "locked"
    /\ tasks[t].kind = "response"
    /\ LET r == execute_insert(db, tasks[t].req.name, tasks[t].keybytes, store_error)
       IN  /\ db' = r.rows
           /\ tasks' = [tasks EXCEPT ![t].pc = "done", ![t].res = r.res,
                                     ![t].reply = insert_status(r.res)]
    /\ mutex' = 0
    /\ UNCHANGED <<my_key, issued, leaked, restarts, checked>>

\* Lines 147-161: the SELECT under the lock, the guard dropped, 200 with the
\* bytes or 404 on any error.
select_key(t, store_error) ==
    /\ tasks[t].pc = "locked"
    /\ tasks[t].kind = "get_key"
    /\ LET r == query_row(db, tasks[t].req.name, store_error)
       IN  tasks' = [tasks EXCEPT ![t].pc = "done",
                                  ![t].reply = IF r.ok THEN OK ELSE NOT_FOUND,
                                  ![t].keybytes = r.bytes]
    /\ mutex' = 0
    /\ UNCHANGED <<my_key, db, issued, leaked, restarts, checked>>

\* The process is stopped and started again (main, lines 83-98): handlers in
\* flight end without a reply, the mutex is a new one, the store file is the
\* same, the server key is generated anew.
Restart ==
    /\ restarts < MaxRestarts
    /\ restarts' = restarts + 1
    /\ my_key' = GenerateKey(restarts + 2)
    /\ mutex' = 0
    /\ tasks' = [t \in Tasks |->
            IF tasks[t].pc \in {"lock", "locked"}
            THEN [tasks[t] EXCEPT !.pc = "killed"]
            ELSE tasks[t]]
    /\ UNCHANGED <<db, issued, leaked, checked>>

\* The reply has left (or the connection was dropped): the handler's frame is
\* gone and the connection carries the next request.
Recycle(t) ==
    /\ tasks[t].pc \in {"done", "panicked", "killed"}
    /\ tasks' = [tasks EXCEPT ![t] = IdleTask]
    /\ UNCHANGED <<my_key, db, mutex, issued, leaked, restarts, checked>>

\* Requests handled concurrently, each connection carrying one request.
Next ==
    \/ \E k \in PubKeys : post_challenge(k)
    \/ \E t \in Tasks : \E req \in HolderRequests : post_response(t, req, "holder")
    \/ \E t \in Tasks : \E req \in ReplayRequests : post_response(t, req, "adversary")
    \/ \E t \in Tasks : \E n \in Names : get_key(t, n)
    \/ \E t \in Tasks : lock(t)
    \/ \E t \in Tasks : \E e \in BOOLEAN : insert_key(t, e)
    \/ \E t \in Tasks : \E e \in BOOLEAN : select_key(t, e)

Spec == Init /\ [][Next]_vars

\* The requests that reach the store, served by concurrent handlers: the
\* registrations of key holders and the lookups.
NextFair ==
    \/ \E k \in PubKeys : post_challenge(k)
    \/ \E t \in Tasks : \E req \in HolderRequests : post_response(t, req, "holder")
    \/ \E t \in Tasks : \E n \in Names : get_key(t, n)
    \/ \E t \in Tasks : lock(t)
    \/ \E t \in Tasks : \E e \in BOOLEAN : insert_key(t, e)
    \/ \E t \in Tasks : \E e \in BOOLEAN : select_key(t, e)

\* Fair scheduling: a handler that can take the free mutex, or that holds it
\* and has its statement to run, is not left waiting forever.
Fairness ==
    \A t \in Tasks :
       /\ WF_vars(lock(t))
       /\ WF_vars(\E e \in BOOLEAN : insert_key(t, e))
       /\ WF_vars(\E e \in BOOLEAN : select_key(t, e))

SpecFair == Init /\ [][NextFair]_vars /\ Fairness

\* One connection, its requests handled one after the other, the adversary
\* building its requests field by field.
NextSeq ==
    \/ \E k \in PubKeys : post_challenge(k)
    \/ \E i \in 1..MaxChallenges : Reveal(i)
    \/ \E req \in HolderRequests : post_response(1, req, "holder")
    \/ \E req \in ForgedRequests : post_response(1, req, "adversary")
    \/ lock(1)
    \/ \E e \in BOOLEAN : insert_key(1, e)
    \/ Recycle(1)
    \/ Restart

SpecSeq == Init /\ [][NextSeq]_vars

\* Response::verify as a function of the request and the server key, on every
\* request a client can build.
NextVerify ==
    \/ checked.key = 0 /\ \E k \in PubKeys : post_challenge(k)
    \/ checked.key = 0 /\ \E i \in 1..MaxChallenges : Reveal(i)
    \/ checked.key = 0 /\ Restart
    \/ checked.key = 0 /\ \E req \in HolderRequests \cup ForgedRequests : verify_call(req)

SpecVerify == Init /\ [][NextVerify]_vars

\* ================================================================ claims
\* What the server sealed in a challenge: its nonce and the key it is for.
SealedNonce(c) == c.state.pt.cn

SealedKey(c) == c.state.pt.pk

Registered(t) == tasks[t].kind = "response" /\ tasks[t].reply = CREATED

\* C1 (proof of possession): every directory entry holds a key for which a
\* challenge was issued, every request that got an entry stored presented
\* exactly the nonce the server encrypted under that key in a challenge, and
\* a request of the adversary stores an honest holder's key only with a nonce
\* that holder handed over.
C1_ProofOfPossession ==
    /\ \A i \in 1..Len(db) :
          \E c \in Issued : db[i].pubkey = BincodeSerializePubkey(c.challenge.pk)
    /\ \A t \in Tasks :
          Registered(t) =>
             \E c \in Issued :
                /\ tasks[t].keybytes = BincodeSerializePubkey(c.challenge.pk)
                /\ tasks[t].req.response = c.challenge.m
                /\ \E i \in 1..Len(db) :
                      db[i] = [name |-> tasks[t].req.name, pubkey |-> tasks[t].keybytes]
                /\ (tasks[t].by = "adversary" /\ c.challenge.pk \in HonestKeys)
                      => c.challenge.m \in leaked

\* C1 witness: a request of the adversary got the honest key stored, with a
\* nonce the holder handed over.
C1_Witness ==
    \E t \in Tasks :
       /\ Registered(t)
       /\ tasks[t].by = "adversary"
       /\ tasks[t].keybytes = BincodeSerializePubkey("A")
       /\ tasks[t].req.response \in leaked

\* C2 (soundness, as claimed): verify returns the bound key iff state and
\* nonce are those of a challenge issued under the current server key and
\* the response is the nonce sealed in it; otherwise it returns None.
C2_SoundnessAsClaimed ==
    LET hits == {c \in Issued :
                    /\ c.state.k = checked.key
                    /\ checked.self.state = c.state
                    /\ checked.self.nonce = c.nonce
                    /\ checked.self.response = SealedNonce(c)}
    IN  checked.key # 0 =>
           IF hits # {}
           THEN \A c \in hits : checked.result = Some(SealedKey(c))
           ELSE checked.result = None

\* C3 (binding): the key bytes of an entry stored by a request are the
\* serialization of the key sealed in that request's state, which is the key
\* the challenge carrying that state was issued for.
C3_Binding ==
    \A t \in Tasks :
       Registered(t) =>
          /\ tasks[t].keybytes = BincodeSerializePubkey(tasks[t].req.state.pt.pk)
          /\ \E i \in 1..Len(db) :
                /\ db[i].name = tasks[t].req.name
                /\ db[i].pubkey = BincodeSerializePubkey(tasks[t].req.state.pt.pk)
          /\ \A c \in Issued :
                tasks[t].req.state = c.state =>
                   /\ tasks[t].keybytes = BincodeSerializePubkey(c.challenge.pk)
                   /\ \A k \in PubKeys \ {c.challenge.pk} :
                         \A i \in 1..Len(db) :
                            db[i].name = tasks[t].req.name
                               => db[i].pubkey # BincodeSerializePubkey(k)

\* C3 witness: a challenge for A and one for B are out, and a request built on
\* A's state got stored under a name.
C3_Witness ==
    /\ \E c \in Issued : c.challenge.pk = "B"
    /\ \E t \in Tasks :
          /\ Registered(t)
          /\ tasks[t].req.state.pt.pk = "A"
          /\ \E i \in 1..Len(db) :
                db[i] = [name |-> tasks[t].req.name,
                         pubkey |-> BincodeSerializePubkey("A")]

\* C4 (atomic uniqueness): whatever the interleaving, no name has more than
\* one entry and no name has more than one request answered Created.
C4_AtomicUniqueness ==
    \A n \in Names :
       /\ Cardinality({i \in 1..Len(db) : db[i].name = n}) <= 1
       /\ Cardinality({t \in Tasks : Registered(t) /\ tasks[t].req.name = n}) <= 1

\* C4 witness: two verified requests for one name, one answered Created, the
\* other refused.
C4_Witness ==
    \E t, u \in Tasks :
       /\ t # u
       /\ Registered(t)
       /\ tasks[u].kind = "response" /\ tasks[u].verified = "Some"
       /\ tasks[u].pc = "done" /\ tasks[u].reply # CREATED
       /\ tasks[u].req.name = tasks[t].req.name

\* The step in which handler t runs its INSERT.
InsertStep(t) ==
    /\ tasks[t].pc = "locked"
    /\ tasks[t].kind = "response"
    /\ tasks'[t].pc = "done"

\* C5 (as claimed): a verified request for a name that already has an entry
\* is answered Conflict and leaves the directory as it was.
C5_SecondReportsConflict ==
    [][\A t \in Tasks :
          (InsertStep(t) /\ tasks[t].req.name \in NamesIn(db))
             => (tasks'[t].reply = CONFLICT /\ db' = db)]_vars

\* C5 (amended): a verified request for a name that already has an entry is
\* never answered Created and leaves the directory as it was: it is answered
\* Conflict, or InternalError when the store fails for a reason of its own;
\* a verified request answered Created added exactly its own entry.
C5_Uniqueness ==
    [][\A t \in Tasks :
          InsertStep(t) =>
             IF tasks[t].req.name \in NamesIn(db)
             THEN /\ db' = db
                  /\ tasks'[t].reply \in {CONFLICT, INTERNAL_SERVER_ERROR}
                  /\ tasks'[t].reply = INTERNAL_SERVER_ERROR
                        => tasks'[t].res = "OtherError"
             ELSE tasks'[t].reply = CREATED
                     => db' = Append(db, [name |-> tasks[t].req.name,
                                          pubkey |-> tasks[t].keybytes])]_vars

\* C5 witness: a second proof, of another key, was refused with Conflict and
\* the name still holds the first key.
C5_Witness ==
    \E t, u \in Tasks :
       /\ Registered(t)
       /\ tasks[u].kind = "response" /\ tasks[u].reply = CONFLICT
       /\ tasks[u].req.name = tasks[t].req.name
       /\ tasks[u].keybytes # tasks[t].keybytes
       /\ {db[i].pubkey : i \in {j \in 1..Len(db) : db[j].name = tasks[t].req.name}}
             = {tasks[t].keybytes}

\* C6 (failed proof, no store access): a request on which verify returns
\* None is answered 400 in the very step that verified it, a step that leaves
\* the mutex and the directory as they were, and the handler never goes for
\* the lock.
C6_FailedProofNoStoreAccess ==
    /\ [](\A t \in Tasks :
             tasks[t].verified = "None"
                => (tasks[t].pc = "done" /\ tasks[t].reply = BAD_REQUEST /\ mutex # t))
    /\ [][\A t \in Tasks :
             (tasks[t].pc = "idle" /\ tasks'[t].verified = "None")
                => (tasks'[t].pc = "done" /\ tasks'[t].reply = BAD_REQUEST
                    /\ db' = db /\ mutex' = mutex)]_vars

\* C6 witness: a request failed its proof while another handler held the lock.
C6_Witness ==
    \E t, u \in Tasks :
       /\ tasks[t].verified = "None" /\ tasks[t].reply = BAD_REQUEST
       /\ mutex = u /\ tasks[u].pc = "locked"

\* C7 (outcome by insert result): a verified request is answered by its
\* INSERT's result alone: Created on success, Conflict on a constraint
\* violation, InternalError on any other store error.
C7_OutcomeByInsertResult ==
    \A t \in Tasks :
       (tasks[t].kind = "response" /\ tasks[t].verified = "Some" /\ tasks[t].pc = "done")
          => \/ tasks[t].res = "Ok" /\ tasks[t].reply = CREATED
             \/ tasks[t].res = "ConstraintViolation" /\ tasks[t].reply = CONFLICT
             \/ tasks[t].res = "OtherError" /\ tasks[t].reply = INTERNAL_SERVER_ERROR

\* C7 witness: one verified request was answered 201, another, hit by a store
\* error, 500.
C7_Witness ==
    \E t, u \in Tasks :
       /\ tasks[t].res = "OtherError" /\ tasks[t].reply = INTERNAL_SERVER_ERROR
       /\ tasks[u].res = "Ok" /\ tasks[u].reply = CREATED

\* C8 (key-restart invalidation): verify returns None on every response that
\* carries the state and nonce of a challenge issued before the last restart,
\* whatever nonce it reveals.
C8_RestartInvalidates ==
    checked.key # 0 =>
       \A c \in Issued :
          (c.boot < restarts /\ checked.self.state = c.state
                             /\ checked.self.nonce = c.nonce)
             => checked.result = None

\* C8 witness: after a restart, a response with the right nonce for a
\* challenge of the previous process got None.
C8_Witness ==
    /\ checked.key # 0
    /\ \E c \in Issued :
          /\ c.boot < restarts
          /\ checked.self.state = c.state
          /\ checked.self.nonce = c.nonce
          /\ checked.self.response = SealedNonce(c)
          /\ checked.result = None

\* C9 (tamper rejection, as claimed): a response that differs in exactly one
\* of state, nonce, response from one that verifies makes verify return None.
C9_TamperRejectedAsClaimed ==
    checked.key # 0 =>
       \A c \in Issued :
          (/\ c.state.k = checked.key
           /\ \/ /\ checked.self.state # c.state
                 /\ checked.self.nonce = c.nonce
                 /\ checked.self.response = SealedNonce(c)
              \/ /\ checked.self.state = c.state
                 /\ checked.self.nonce # c.nonce
                 /\ checked.self.response = SealedNonce(c)
              \/ /\ checked.self.state = c.state
                 /\ checked.self.nonce = c.nonce
                 /\ checked.self.response # SealedNonce(c))
             => checked.result = None

\* C10 (no abort, as claimed): on every request verify returns Some or None
\* and the handler ends with a status reply.
C10_NeverAbortsAsClaimed ==
    \A t \in Tasks :
       (tasks[t].kind = "response" /\ tasks[t].pc \notin {"lock", "locked", "killed"})
          => /\ tasks[t].verified \in {"Some", "None"}
             /\ tasks[t].pc = "done"
             /\ tasks[t].reply \in {CREATED, BAD_REQUEST, CONFLICT, INTERNAL_SERVER_ERROR}

\* C11 (failure uniformity, as claimed): every request whose proof is not
\* accepted, for whichever reason, ends the same way: verify returned None
\* and the reply is 400.
C11_FailuresUniformAsClaimed ==
    \A t \in Tasks :
       (tasks[t].kind = "response" /\ tasks[t].verified \notin {"-", "Some"})
          => /\ tasks[t].verified = "None"
             /\ tasks[t].pc = "done"
             /\ tasks[t].reply = BAD_REQUEST

\* C12 (insert-only): no step removes or changes an entry of the directory.
C12_InsertOnly ==
    [][/\ Len(db') >= Len(db)
       /\ \A i \in 1..Len(db) : db'[i] = db[i]]_vars

\* C12 witness: after an entry was stored, a lookup was answered and a second
\* registration of the name was refused, the entry being as it was.
C12_Witness ==
    \E t, u \in Tasks :
       /\ Registered(t)
       /\ tasks[u].pc = "done" /\ tasks[u].reply \in {OK, CONFLICT}
       /\ tasks[u].req.name = tasks[t].req.name
       /\ \E i \in 1..Len(db) :
             db[i] = [name |-> tasks[t].req.name, pubkey |-> tasks[t].keybytes]

\* The step in which handler t runs its SELECT.
SelectStep(t) ==
    /\ tasks[t].pc = "locked"
    /\ tasks[t].kind = "get_key"
    /\ tasks'[t].pc = "done"

StoredUnder(rows, name) == {rows[i].pubkey : i \in {j \in 1..Len(rows) : rows[j].name = name}}

\* C13 (lookup contract, as claimed): a lookup leaves the directory as it
\* was and is answered 200 with the stored key bytes when the name has an
\* entry, 404 when it has none.
C13_LookupContractAsClaimed ==
    [][\A t \in Tasks :
          SelectStep(t) =>
             /\ db' = db
             /\ IF tasks[t].req.name \in NamesIn(db)
                THEN /\ tasks'[t].reply = OK
                     /\ StoredUnder(db, tasks[t].req.name) = {tasks'[t].keybytes}
                ELSE tasks'[t].reply = NOT_FOUND]_vars

\* C14 (issuing retains no state): a step that issues a challenge changes
\* nothing the server holds: not its key, the directory, the mutex or any
\* handler; the challenge exists only in the reply sent.
C14_ChallengeKeepsNothing ==
    [][issued' # issued => UNCHANGED <<my_key, db, mutex, tasks, restarts>>]_vars

\* C14 witness: challenges were issued and one of them was answered and
\* accepted, the server still holding the key it started with.
C14_Witness ==
    /\ Len(issued) >= 2
    /\ my_key = GenerateKey(1)
    /\ \E t \in Tasks : Registered(t) /\ tasks[t].key = my_key

\* The well-formed states, keys and AEAD nonces new_challenge can seal.
WellFormedStates ==
    [challenge_nonce : {RandBytes(ChallengeLen, r) : r \in 1..MaxChallenges},
     pubkey : PubKeys]

ServerKeys == {GenerateKey(e) : e \in 1..(MaxRestarts + 1)}

SealNonces == {RandBytes(NonceLen, r) : r \in 1..MaxChallenges}

\* open(seal(x)): lines 72-73 applied to the result of lines 49-54.
OpenSealed(key, nonce, ciphertext) ==
    LET opened == AeadDecrypt(key, nonce, ciphertext)
    IN  IF opened.ok THEN BincodeDeserializeState(opened.pt)
        ELSE [ok |-> FALSE, state |-> [challenge_nonce |-> NoBytes, pubkey |-> "-"]]

C16_ProofBeforeNameAsClaimed ==
    /\ [](\A t \in Tasks :
             tasks[t].reply = CONFLICT => tasks[t].verified = "Some")
    /\ [][\A t \in Tasks :
             (/\ tasks[t].pc = "idle"
              /\ tasks'[t].kind = "response"
              /\ tasks'[t].verified # "Some"
              /\ tasks'[t].req.name \in NamesIn(db))
                => (tasks'[t].pc = "done" /\ tasks'[t].reply = BAD_REQUEST)]_vars

\* C17 (no retries, as claimed): a registration request either fails its
\* proof and ends with BadRequest or goes for the store once; its one INSERT
\* ends it with Created, Conflict or InternalError; and a request that has
\* ended does nothing more: no second INSERT, no second reply.
C17_OneAttemptOneOutcomeAsClaimed ==
    [][/\ db' # db => \E t \in Tasks : InsertStep(t) /\ Len(db') = Len(db) + 1
       /\ \A t \in Tasks :
             /\ (tasks[t].pc = "idle" /\ tasks'[t].kind = "response")
                   => \/ tasks'[t].pc = "lock"
                      \/ tasks'[t].pc = "done" /\ tasks'[t].reply = BAD_REQUEST
             /\ InsertStep(t)
                   => tasks'[t].reply \in {CREATED, CONFLICT, INTERNAL_SERVER_ERROR}
             /\ (tasks[t].kind = "response" /\ tasks[t].pc = "done")
                   => tasks'[t] \in {tasks[t], IdleTask}]_vars

\* The (response, state, nonce) triple of a request.
Triple(req) == <<req.response, req.state, req.nonce>>

\* C18 (a valid proof is reusable, as claimed): a verified request for a name
\* not in the directory is answered Created and adds its entry, also when its
\* proof was already used to register another name.
C18_BothCreatedAsClaimed ==
    [][\A t \in Tasks :
          (InsertStep(t) /\ tasks[t].req.name \notin NamesIn(db))
             => /\ tasks'[t].reply = CREATED
                /\ db' = Append(db, [name |-> tasks[t].req.name,
                                     pubkey |-> tasks[t].keybytes])]_vars

\* C18 (amended): a triple that verified verifies again with the same key
\* whenever it is submitted under the same server key; a verified request for
\* a name not in the directory is never answered Conflict, whatever other
\* names its key is already stored under: it is answered Created and adds its
\* entry, or InternalError when the store fails for a reason of its own.
C18_ProofReusable ==
    [][\A t \in Tasks :
          /\ (/\ tasks[t].pc = "idle"
              /\ tasks'[t].kind = "response"
              /\ \E u \in Tasks :
                    /\ tasks[u].verified = "Some"
                    /\ tasks[u].key = my_key
                    /\ Triple(tasks[u].req) = Triple(tasks'[t].req))
                => /\ tasks'[t].verified = "Some"
                   /\ \A u \in Tasks :
                         (tasks[u].verified = "Some"
                             /\ Triple(tasks[u].req) = Triple(tasks'[t].req))
                            => tasks'[t].keybytes = tasks[u].keybytes
          /\ (InsertStep(t) /\ tasks[t].req.name \notin NamesIn(db))
                => /\ tasks'[t].reply \in {CREATED, INTERNAL_SERVER_ERROR}
                   /\ tasks'[t].reply = INTERNAL_SERVER_ERROR
                         => (tasks'[t].res = "OtherError" /\ db' = db)
                   /\ tasks'[t].reply = CREATED
                         => db' = Append(db, [name |-> tasks[t].req.name,
                                              pubkey |-> tasks[t].keybytes])]_vars

\* C18 witness: one triple was submitted with two names, both requests were
\* answered Created and both names hold the same key.
C18_Witness ==
    \E t, u \in Tasks :
       /\ Registered(t) /\ Registered(u)
       /\ Triple(tasks[t].req) = Triple(tasks[u].req)
       /\ tasks[t].req.name # tasks[u].req.name
       /\ StoredUnder(db, tasks[t].req.name) = {tasks[t].keybytes}
       /\ StoredUnder(db, tasks[u].req.name) = {tasks[t].keybytes}

Holders == {t \in Tasks : tasks[t].pc = "locked"}

====
